---- MODULE Spec2Model ----
(***************************************************************************)
(* A model of youtube_caption_finder: the balanced-brace extraction of the *)
(* ytInitialData object (channel.py), the Channel handle and its memoised  *)
(* identifier (channel.py), the result-card and filter-option parsers      *)
(* (extractor.py) and the lazy pagination of search_all (client.py).       *)
(*                                                                         *)
(* Documents are sequences of symbols.  A symbol is one character, except  *)
(* that a run of letters the code never looks inside is one symbol: the    *)
(* regex literals "ytInitialData" and "window", the JSON literal "null",   *)
(* and the key and value words of the channel documents.                   *)
(***************************************************************************)
EXTENDS Integers, Sequences, FiniteSets, TLC

VARIABLES
    html,            \* the document handed to extract_yt_initial_data
    extracted,       \* its outcome, NotRun before the call
    ch_constructed,  \* a Channel handle exists
    ch_channel_id,   \* Channel._channel_id
    ch_fetches,      \* requests.get calls made for the handle
    ch_reads,        \* reads of Channel.channel_id made
    ch_returned,     \* some read of channel_id has returned a value
    ch_resp,         \* the response of the fetch of the latest read, NoResponse if none
    ch_last,         \* the outcome of the latest read: the value returned or the exception
    doc,             \* the results page handed to VideoInfoExtractor.extract
    video_list,      \* its outcome, NotExtracted before the call
    fdoc,            \* the results page handed to FilterExtractor.extract
    filters_data,    \* its outcome, NotExtracted before the call
    pages,           \* the responses the search site gives, by page number
    gen_pc,          \* the search_all generator: none, created, suspended, done, raised
    gen_calls,       \* calls of search_all made
    page_id,         \* search_all's page_id
    videos,          \* search_all's videos: the records of the current page
    vpos,            \* how many of videos the for loop has yielded
    requests,        \* page numbers requested by the current generator, in order
    yielded,         \* records the current generator has yielded, in order
    gen_error,       \* the exception that ended the generator, if any
    search_requests, \* page numbers requested by the latest call of search
    search_result,   \* the outcome of the latest call of search, NotExtracted if none
    flt,             \* a Filters object: its six fields
    flt_call,        \* the latest setter called on it and its arguments, NoCall if none
    flt_out,         \* the outcome of that call
    url_args,        \* the arguments of a call of _build_search_url
    url              \* the URL it returned, <<>> before the call

jsonVars == <<html, extracted>>
chanVars == <<ch_constructed, ch_channel_id, ch_fetches, ch_reads, ch_returned, ch_resp, ch_last>>
cardVars == <<doc, video_list>>
filtVars == <<fdoc, filters_data>>
pageVars == <<pages, gen_pc, gen_calls, page_id, videos, vpos, requests, yielded, gen_error>>
searchVars == <<search_requests, search_result>>
setVars == <<flt, flt_call, flt_out>>
urlVars == <<url_args, url>>
vars == <<jsonVars, chanVars, cardVars, filtVars, pageVars, searchVars, setVars, urlVars>>

(***************************************************************************)
(* Bounds of the model.                                                    *)
(***************************************************************************)
MaxBody == 5     \* longest exhaustively enumerated text after the assignment
MaxWs == 1       \* longest run of whitespace around the '=' and the brackets
MaxReads == 3    \* reads of channel_id made on one handle
MaxCards == 2    \* elements of a results page handed to the card parser
MaxItems == 1    \* sort links, and quick date-range buttons, of a results page
MaxPages == 2    \* result pages the search site holds before its empty pages
MaxCalls == 2    \* calls of search_all

None == <<"None">>
\* an outcome of extract_yt_initial_data before the call
NotRun ==
    [kind |-> "NotRun", msg |-> "", value |-> None, scanned |-> FALSE,
     start_index |-> 0, end_index |-> 0, json_text |-> <<>>]

(***************************************************************************)
(* Outcomes of calls, and the state of each part of the program before it  *)
(* is used.  An outcome has kind "ok" and the value returned, or the kind  *)
(* of the exception raised.                                                *)
(***************************************************************************)
Raised(kind, msg) == [kind |-> kind, msg |-> msg, value |-> None]
Returned(v) == [kind |-> "ok", msg |-> "", value |-> v]

NoResponse == [status_code |-> 0, text |-> <<>>]
NotRead == Raised("NotRead", "")
NotExtracted == [kind |-> "NotExtracted", value |-> <<>>]

IdleJson ==
    /\ html = <<>>
    /\ extracted = NotRun

IdleChannel ==
    /\ ch_constructed = FALSE
    /\ ch_channel_id = None
    /\ ch_fetches = 0
    /\ ch_reads = 0
    /\ ch_returned = FALSE
    /\ ch_resp = NoResponse
    /\ ch_last = NotRead

IdleCards ==
    /\ doc = <<>>
    /\ video_list = NotExtracted

IdleFilters ==
    /\ fdoc = <<>>
    /\ filters_data = NotExtracted

IdlePages ==
    /\ pages = <<>>
    /\ gen_pc = "none"
    /\ gen_calls = 0
    /\ page_id = 0
    /\ videos = <<>>
    /\ vpos = 0
    /\ requests = <<>>
    /\ yielded = <<>>
    /\ gen_error = ""
    /\ search_requests = <<>>
    /\ search_result = NotExtracted

\* Filters(): every field None (filters.py, lines 34-39)
NewFilters ==
    [title |-> None, views |-> None, likes |-> None, duration |-> None,
     date_range |-> None, license |-> None]

NoCall == [op |-> "none", lo |-> <<0, 0>>, hi |-> <<0, 0>>]

IdleSetters ==
    /\ flt = NewFilters
    /\ flt_call = NoCall
    /\ flt_out = NotRead

IdleUrl ==
    /\ url_args = <<>>
    /\ url = <<>>

\* h[i], or "EOF" outside the document
At(h, i) == IF i \in 1..Len(h) THEN h[i] ELSE "EOF"

Quotes == {"\"", "'"}

(***************************************************************************)
(* channel.py, extract_yt_initial_data: the regex of line 33.              *)
(***************************************************************************)
RECURSIVE SkipWs(_, _)
\* \s* : the first position at or after i that holds no whitespace
SkipWs(h, i) == IF At(h, i) = " " THEN SkipWs(h, i + 1) ELSE i

\* AfterName with the '=' optional, as the pattern \s*=?\s*({) would match
AfterName_OptionalEq(h, p) ==
    LET j == SkipWs(h, p)
        k == SkipWs(h, j + 1)
    IN  IF At(h, j) = "=" /\ At(h, k) = "{" THEN k
        ELSE IF At(h, j) = "{" THEN j
        ELSE 0

\* \s*=\s*({) from position p: the position of the brace, 0 when no match
AfterName(h, p) ==
    LET j == SkipWs(h, p)
        k == SkipWs(h, j + 1)
    IN  IF At(h, j) = "=" /\ At(h, k) = "{" THEN k ELSE 0

\* the whole pattern tried at position i: the position of group 1, 0 when no match
MatchAt(h, i) ==
    IF At(h, i) = "window" /\ At(h, i + 1) = "["
    THEN LET j == SkipWs(h, i + 2)
             k == SkipWs(h, j + 3)
         IN  IF /\ At(h, j) \in Quotes
                /\ At(h, j + 1) = "ytInitialData"
                /\ At(h, j + 2) \in Quotes
                /\ At(h, k) = "]"
             THEN AfterName(h, k + 1)
             ELSE 0
    ELSE IF At(h, i) = "ytInitialData"
         THEN AfterName(h, i + 1)
         ELSE 0

\* re.search: the leftmost position where the pattern matches; match.start(1)
\* as a 1-based position, 0 when there is no match
re_search(h) ==
    LET hits == {i \in 1..Len(h) : MatchAt(h, i) # 0}
    IN  IF hits = {} THEN 0
        ELSE MatchAt(h, CHOOSE i \in hits : \A j \in hits : i <= j)

(***************************************************************************)
(* channel.py, extract_yt_initial_data: the scan of lines 38-63.           *)
(* st = [brace_count, in_string, string_char, escape]; the result is       *)
(* end_index as a 1-based exclusive position (Python's i + 1), and         *)
(* start_index when the loop runs off the end of the document.             *)
(***************************************************************************)
ScanInit == [brace_count |-> 0, in_string |-> FALSE, string_char |-> "", escape |-> FALSE]

\* ScanStep without the escape flag: a backslash in a string is an ordinary character
ScanStep_NoEscape(st, ch) ==
    IF st.in_string
    THEN IF ch = st.string_char THEN [st EXCEPT !.in_string = FALSE] ELSE st
    ELSE IF ch \in Quotes THEN [st EXCEPT !.in_string = TRUE, !.string_char = ch]
         ELSE IF ch = "{" THEN [st EXCEPT !.brace_count = @ + 1]
         ELSE IF ch = "}" THEN [st EXCEPT !.brace_count = @ - 1]
         ELSE st

\* one iteration of the loop body on character ch (the break is in ScanLoop)
ScanStep(st, ch) ==
    IF st.in_string
    THEN IF st.escape THEN [st EXCEPT !.escape = FALSE]
         ELSE IF ch = "\\" THEN [st EXCEPT !.escape = TRUE]
         ELSE IF ch = st.string_char THEN [st EXCEPT !.in_string = FALSE]
         ELSE st
    ELSE IF ch \in Quotes THEN [st EXCEPT !.in_string = TRUE, !.string_char = ch]
         ELSE IF ch = "{" THEN [st EXCEPT !.brace_count = @ + 1]
         ELSE IF ch = "}" THEN [st EXCEPT !.brace_count = @ - 1]
         ELSE st

RECURSIVE ScanLoop(_, _, _, _)
ScanLoop(h, start_index, i, st) ==
    IF i > Len(h) THEN start_index
    ELSE LET nx == ScanStep(st, h[i])
         IN  IF ~st.in_string /\ h[i] = "}" /\ nx.brace_count = 0
             THEN i + 1
             ELSE ScanLoop(h, start_index, i + 1, nx)

\* html[start_index:end_index]
Slice(h, start_index, end_index) == SubSeq(h, start_index, end_index - 1)

(***************************************************************************)
(* json.loads as channel.py line 65 uses it, on the symbols of the model:  *)
(* a recursive-descent parse of objects, strings and null.  A value is     *)
(* <<"obj", members>> with members a sequence of <<key, value>>,           *)
(* <<"str", content>> or <<"null">>.  A parse step yields                  *)
(* [ok, val, next].                                                        *)
(***************************************************************************)
Fail == [ok |-> FALSE, val |-> None, next |-> 0]
Parsed(v, n) == [ok |-> TRUE, val |-> v, next |-> n]

\* the escapes of JSON among the symbols of the model: \" and \\
JsonEscapable == {"\"", "\\"}

RECURSIVE StrBody(_, _, _)
\* the rest of a string whose opening quote is before j
StrBody(t, j, acc) ==
    IF j > Len(t) THEN Fail
    ELSE IF t[j] = "\"" THEN Parsed(<<"str", acc>>, j + 1)
    ELSE IF t[j] = "\\"
         THEN IF At(t, j + 1) \in JsonEscapable
              THEN StrBody(t, j + 2, Append(acc, t[j + 1]))
              ELSE Fail
    ELSE StrBody(t, j + 1, Append(acc, t[j]))

RECURSIVE ParseValue(_, _)
RECURSIVE ParseMembers(_, _, _)

\* after a member: '}' ends the object whose members are acc, ',' goes on
AfterMember(t, e, acc) ==
    IF At(t, e) = "}" THEN Parsed(<<"obj", acc>>, e + 1)
    ELSE IF At(t, e) = "," THEN ParseMembers(t, SkipWs(t, e + 1), acc)
    ELSE Fail

\* after the value v of the member with the key
AfterValue(t, key, v, acc) ==
    IF ~v.ok THEN Fail
    ELSE AfterMember(t, SkipWs(t, v.next), Append(acc, <<key.val[2], v.val>>))

\* after the key of a member: ':' and the value
AfterKey(t, key, acc) ==
    IF ~key.ok THEN Fail
    ELSE IF At(t, SkipWs(t, key.next)) # ":" THEN Fail
    ELSE AfterValue(t, key, ParseValue(t, SkipWs(t, key.next) + 1), acc)

\* the members of an object from the key at position k on
ParseMembers(t, k, acc) ==
    IF At(t, k) # "\"" THEN Fail
    ELSE AfterKey(t, StrBody(t, k + 1, <<>>), acc)

\* the value that starts at j, whitespace skipped
ValueAt(t, j) ==
    IF At(t, j) = "\"" THEN StrBody(t, j + 1, <<>>)
    ELSE IF At(t, j) = "null" THEN Parsed(<<"null">>, j + 1)
    ELSE IF At(t, j) = "{"
         THEN IF At(t, SkipWs(t, j + 1)) = "}"
              THEN Parsed(<<"obj", <<>>>>, SkipWs(t, j + 1) + 1)
              ELSE ParseMembers(t, SkipWs(t, j + 1), <<>>)
    ELSE Fail

ParseValue(t, i) == ValueAt(t, SkipWs(t, i))

\* the whole text must be one value
WholeText(t, v) == IF v.ok /\ SkipWs(t, v.next) = Len(t) + 1 THEN v ELSE Fail

\* json.loads(text)
json_loads(t) == WholeText(t, ParseValue(t, 1))

(***************************************************************************)
(* channel.py, extract_yt_initial_data, lines 33-65, as one outcome:       *)
(* kind "ok" with the parsed value, or the exception raised.               *)
(***************************************************************************)
\* line 65 with the decode error swallowed: an empty object is returned for a
\* span that does not parse
Decoded_Swallow(start_index, end_index, json_text, parsed) ==
    [kind |-> "ok", msg |-> "",
     value |-> IF parsed.ok THEN parsed.val ELSE <<"obj", <<>>>>,
     scanned |-> TRUE, start_index |-> start_index,
     end_index |-> end_index, json_text |-> json_text]

\* line 65: return json.loads(json_text), parsed being what json.loads makes of it
Decoded(start_index, end_index, json_text, parsed) ==
    IF parsed.ok
    THEN [kind |-> "ok", msg |-> "",
          value |-> parsed.val, scanned |-> TRUE, start_index |-> start_index,
          end_index |-> end_index, json_text |-> json_text]
    ELSE [kind |-> "JSONDecodeError", msg |-> "",
          value |-> None, scanned |-> TRUE, start_index |-> start_index,
          end_index |-> end_index, json_text |-> json_text]

\* lines 64-65
ParseSpan(start_index, end_index, json_text) ==
    Decoded(start_index, end_index, json_text, json_loads(json_text))

\* lines 35-65, start_index being match.start(1) or 0 for no match
ExtractFrom(h, start_index, end_index) ==
    IF start_index = 0
    THEN [kind |-> "ValueError", msg |-> "ytInitialData not found in HTML",
          value |-> None, scanned |-> FALSE, start_index |-> 0, end_index |-> 0,
          json_text |-> <<>>]
    ELSE ParseSpan(start_index, end_index, Slice(h, start_index, end_index))

ScanFrom(h, start_index) ==
    ExtractFrom(h, start_index, ScanLoop(h, start_index, start_index, ScanInit))

extract_yt_initial_data(h) == ScanFrom(h, re_search(h))

(***************************************************************************)
(* The documents of the model.                                             *)
(***************************************************************************)
\* the characters the scan tells apart, and ';' for every other character
ScanAlphabet == {"{", "}", "\"", "'", "\\", ";"}

Ws == {[i \in 1..k |-> " "] : k \in 0..MaxWs}

\* the two forms the pattern accepts, before the '='
Names ==
    {<<"ytInitialData">>} \cup
    {<<"window", "[">> \o w1 \o <<q1, "ytInitialData", q2>> \o w2 \o <<"]">> :
        <<q1, q2, w1, w2>> \in Quotes \X Quotes \X Ws \X Ws}

\* near misses of the two forms
BrokenNames ==
    {<<>>, <<"window", "[", "ytInitialData", "]">>,
     <<"window", "'", "ytInitialData", "'", "]">>,
     <<"window", "[", "'", "ytInitialData", "]">>}

Heads == {<<>>, <<"a">>, <<"ytInitialData", ";">>}

AllPrefixes ==
    {hd \o n \o w1 \o e \o w2 \o b :
        <<hd, n, w1, e, w2, b>> \in
            Heads \X (Names \cup BrokenNames) \X Ws \X {<<"=">>, <<>>, <<";">>}
                  \X Ws \X {<<"{">>, <<>>}}

FewPrefixes ==
    {<<"ytInitialData", "=", "{">>,
     <<"a", "window", "[", "'", "ytInitialData", "\"", "]", " ", "=", " ", "{">>}

Str(w) == <<"\"", w, "\"">>
Obj(k, v) == <<"{">> \o Str(k) \o <<":">> \o v \o <<"}">>

\* channel pages: what follows the opening brace of the object with the
\* key path metadata -> channelMetadataRenderer -> externalId holding v
ChannelBody(v) ==
    Tail(Obj("metadata", Obj("channelMetadataRenderer", Obj("externalId", v))))
        \o <<";">>

FewBodies ==
    {<<>>, <<"}">>, <<"}", ";", "}">>, <<"\"", "}", "\\", "\"", "{", "\"", "}", ";">>,
     <<"'", "\"", "}", "'", ":", "{", "}", "}">>,
     <<"\"", "a", "\"", ":", "\"", "\\", "{", "\"", "}">>,
     <<"\"", "a", "\"", ":", "null", ",", " ", "\"", "a", "\"", ":", "{", " ", "}", " ", "}", ";">>,
     <<"\"", "a", "\"", ":", "\"", ";", "}", "\\", "\\", "\"", "}", ";">>,
     ChannelBody(Str("UC1")), ChannelBody(<<"null">>),
     Tail(Obj("metadata", Str("x"))), Tail(Obj("metadata", <<"{", "\"">>))}

\* every short text after a few prefixes, every prefix before a few texts
IsDocument(h) ==
    \/ \E p \in FewPrefixes : \E k \in 0..MaxBody : \E b \in [1..k -> ScanAlphabet] :
          h = p \o b
    \/ \E p \in AllPrefixes : \E b \in FewBodies : h = p \o b

(***************************************************************************)
(* Results pages.  A page is the sequence of its elements in document      *)
(* order; an element is [tag, id, idx, anchors, thumb, title, badges,      *)
(* scroll], each sub-element None when the element has none.  A text is a  *)
(* sequence of words and whitespace symbols.                               *)
(***************************************************************************)
Whitespace == {" ", "\n"}

RECURSIVE LStrip(_)
LStrip(t) == IF t # <<>> /\ Head(t) \in Whitespace THEN LStrip(Tail(t)) ELSE t

RECURSIVE RStrip(_)
RStrip(t) ==
    IF t # <<>> /\ t[Len(t)] \in Whitespace THEN RStrip(SubSeq(t, 1, Len(t) - 1)) ELSE t

\* get_text(strip=True) of an element holding the text t
get_text(t) == RStrip(LStrip(t))

RECURSIVE JoinSplit(_)
\* " ".join(t.split()) of a text that starts with no whitespace
JoinSplit(t) ==
    IF t = <<>> THEN <<>>
    ELSE IF Head(t) \in Whitespace
         THEN (IF LStrip(t) = <<>> THEN <<>> ELSE <<" ">> \o JoinSplit(LStrip(t)))
         ELSE <<Head(t)>> \o JoinSplit(Tail(t))

\* line 65: " ".join(scroll_text.split())
collapse(t) == JoinSplit(LStrip(t))

\* s in t, for a marker s that is one symbol
Contains(t, s) == \E i \in 1..Len(t) : t[i] = s

\* t.startswith(s)
StartsWith(t, s) == t # <<>> /\ Head(t) = s

\* card.find(...): <<x>> for the first of the elements found, <<>> if there
\* is none
First(found) == IF found = <<>> THEN <<>> ELSE <<Head(found)>>

\* the anchors of a result card
A_full == [cls |-> "fullpagelnk", href |-> <<"/video/", "v1">>, vid |-> <<"v1">>,
           text |-> <<>>, img_alt |-> None]
A_watch == [cls |-> "", href |-> <<"https://www.", "youtube.com/watch", "?v=v1">>,
            vid |-> None, text |-> <<"YouTube">>, img_alt |-> None]
A_chan == [cls |-> "", href |-> <<"/channel/", "UC1">>, vid |-> None,
           text |-> <<" ", "Chan", " ", "One", "\n">>, img_alt |-> None]
A_lang == [cls |-> "", href |-> <<"/sidebyside", "/v1">>, vid |-> None,
           text |-> <<>>, img_alt |-> <<"en">>]

\* the badges of a result card
B_views == [icon |-> "fa-eye", text |-> <<" ", "1,234">>]
B_likes == [icon |-> "fa-thumbs-up", text |-> <<"56", " ">>]
B_date == [icon |-> "", text |-> <<"Jan", " ", "1,", " ", "2020">>]
B_cc == [icon |-> "", text |-> <<" ", "CC">>]
B_num == [icon |-> "", text |-> <<"4:05">>]

\* the words that hold a letter
AlphaWords == {"Jan", "Chan", "One", "en", "YouTube", "a", "b", "CC"}

Parts == {"fullpagelnk", "watch", "channel", "lang", "thumb", "title", "badges", "scroll", "idx"}

InPart(P, x, v) == IF x \in P THEN v ELSE None

\* a div with the given id and the parts P
Card(id, P) ==
    [tag |-> "div", id |-> id,
     idx |-> InPart(P, "idx", <<"0">>),
     anchors |-> (IF "fullpagelnk" \in P THEN <<A_full>> ELSE <<>>)
                 \o (IF "watch" \in P THEN <<A_watch>> ELSE <<>>)
                 \o (IF "channel" \in P THEN <<A_chan>> ELSE <<>>)
                 \o (IF "lang" \in P THEN <<A_lang>> ELSE <<>>),
     thumb |-> InPart(P, "thumb", <<"t.jpg">>),
     title |-> InPart(P, "title", <<"\n", "a", " ", "b", " ">>),
     badges |-> IF "badges" \in P THEN <<B_views, B_likes, B_date>> ELSE <<>>,
     scroll |-> InPart(P, "scroll", <<" ", "a", "\n", " ", "b", "\n">>)]

Bare(tag, id) == [Card(id, {}) EXCEPT !.tag = tag]

\* every part, no part, every part but one
PartSets == {Parts, {}} \cup {Parts \ {x} : x \in Parts}

CardIds == {<<"vcard", "1">>, <<"vcard", "2">>}

Elements ==
    {Card(id, P) : <<id, P>> \in CardIds \X PartSets}
    \cup {Bare("div", <<"card", "9">>), Bare("div", None), Bare("span", <<"vcard", "3">>)}
    \cup {[Card(<<"vcard", "1">>, Parts) EXCEPT !.badges = bs] :
             bs \in {<<B_date, B_cc>>, <<B_cc, B_views, B_num, B_date, B_likes>>,
                     <<B_num, B_likes>>}}

(***************************************************************************)
(* extractor.py, VideoInfoExtractor.extract, lines 23-82.                  *)
(***************************************************************************)
\* line 24: the id filter of find_all("div", id=...)
IsCard(e) == e.tag = "div" /\ e.id # None /\ StartsWith(e.id, "vcard")

IsFullpage(a) == a.cls = "fullpagelnk"
IsWatch(a) == Contains(a.href, "youtube.com/watch")
IsChannel(a) == StartsWith(a.href, "/channel/")
IsSideBySide(a) == Contains(a.href, "/sidebyside")

\* x.get(f) if the sub-element was found, else None
Attr(found, f) == IF found = <<>> THEN None ELSE found[1][f]
TextOf(found, f) == IF found = <<>> THEN None ELSE get_text(found[1][f])

HasAlpha(t) == \E i \in 1..Len(t) : t[i] \in AlphaWords

RECURSIVE ScanBadges(_, _)
\* lines 46-54: the loop over the badges, acc = [views, likes, upload_date]
ScanBadges(badges, acc) ==
    IF badges = <<>> THEN acc
    ELSE ScanBadges(Tail(badges),
            IF Head(badges).icon = "fa-eye"
            THEN [acc EXCEPT !.views = get_text(Head(badges).text)]
            ELSE IF Head(badges).icon = "fa-thumbs-up"
            THEN [acc EXCEPT !.likes = get_text(Head(badges).text)]
            ELSE IF get_text(Head(badges).text) # <<>> /\ HasAlpha(get_text(Head(badges).text))
            THEN [acc EXCEPT !.upload_date = get_text(Head(badges).text)]
            ELSE acc)

NoBadges == [views |-> None, likes |-> None, upload_date |-> None]

\* lines 28-80 for one card whose scroll-box was found
VideoInfo(card, b) ==
    [vcard_id |-> card.id,
     idx |-> card.idx,
     video_id |-> Attr(First(SelectSeq(card.anchors, IsFullpage)), "vid"),
     thumbnail_url |-> card.thumb,
     video_link |-> Attr(First(SelectSeq(card.anchors, IsWatch)), "href"),
     title |-> IF card.title = None THEN None ELSE get_text(card.title),
     channel |-> TextOf(First(SelectSeq(card.anchors, IsChannel)), "text"),
     views |-> b.views,
     likes |-> b.likes,
     upload_date |-> b.upload_date,
     language |-> Attr(First(SelectSeq(card.anchors, IsSideBySide)), "img_alt"),
     scroll_text |-> collapse(get_text(card.scroll))]

\* lines 63-65: scroll_text is None when there is no scroll-box, and
\* None.split() raises AttributeError
ScrollFails(card) == card.scroll = None

\* lines 26-81: the loop over the cards
FromCards(cards) ==
    IF \E i \in 1..Len(cards) : ScrollFails(cards[i])
    THEN [kind |-> "AttributeError", value |-> <<>>]
    ELSE [kind |-> "ok",
          value |-> [i \in 1..Len(cards) |->
                        VideoInfo(cards[i], ScanBadges(cards[i].badges, NoBadges))]]

VideoInfoExtractor_extract(d) == FromCards(SelectSeq(d, IsCard))

InitCards ==
    /\ \E k \in 0..MaxCards : doc \in [1..k -> Elements]
    /\ video_list = NotExtracted
    /\ IdleJson /\ IdleChannel /\ IdleFilters /\ IdlePages /\ IdleSetters /\ IdleUrl

ExtractVideos ==
    /\ video_list.kind = "NotExtracted"
    /\ video_list' = VideoInfoExtractor_extract(doc)
    /\ UNCHANGED <<doc, jsonVars, chanVars, filtVars, pageVars, searchVars, setVars, urlVars>>

NextCards == ExtractVideos

SpecCards == InitCards /\ [][NextCards]_vars

(***************************************************************************)
(* The filter panel of a results page: which of the elements               *)
(* FilterExtractor.extract looks for are there, the links of the sort      *)
(* panel and the buttons of the date dropdown.                             *)
(***************************************************************************)
\* hrefs of sort links: one that calls orderByField('f','o'), one that does not
L_handler == [text |-> <<"Views">>,
              href |-> <<"javascript:", "orderByField('", "viewcount", "','", "desc", "')">>]
L_plain == [text |-> <<" ", "Relevance">>, href |-> <<"/search/", "a">>]

\* onclick of date buttons: one that sets #startdate, one that does not
Btn_set == [text |-> <<"Last", " ", "year", " ">>,
            onclick |-> <<"$('#startdate').val('", "2020-01-01", "')", ";">>]
Btn_other == [text |-> <<"Clear">>, onclick |-> <<"clearDates()">>]

Flags == {"accordion", "sort_header", "sort_div", "collapseZero", "qtitle",
          "sliderviews", "sliderlikes", "sliderduration", "licenseFilter",
          "startdate", "enddate", "dropdown"}

\* a page: the set of the elements it has, the sort links and the date buttons
FilterPage(has, links, buttons) == [has |-> has, links |-> links, buttons |-> buttons]

(***************************************************************************)
(* extractor.py, FilterExtractor.extract, lines 96-193.  A dict is a       *)
(* function from its keys.                                                 *)
(***************************************************************************)
EmptyDict == <<>>
Entry(c, k, v) == IF c THEN k :> v ELSE EmptyDict

\* the symbols no [^']+ group can match
QuoteSymbols == {"orderByField('", "','", "')", "$('#startdate').val('", "'"}

\* line 113: the positions where orderByField\('([^']+)','([^']+)'\) matches
OrderByAt(href) ==
    {i \in 1..(Len(href) - 4) :
        /\ href[i] = "orderByField('" /\ href[i + 1] \notin QuoteSymbols
        /\ href[i + 2] = "','" /\ href[i + 3] \notin QuoteSymbols
        /\ href[i + 4] = "')"}

FirstOf(S) == CHOOSE i \in S : \A j \in S : i <= j

\* lines 111-124
SortOption(a) ==
    IF OrderByAt(a.href) # {}
    THEN [text |-> get_text(a.text),
          field |-> a.href[FirstOf(OrderByAt(a.href)) + 1],
          order |-> a.href[FirstOf(OrderByAt(a.href)) + 3]]
    ELSE [text |-> get_text(a.text), href |-> a.href]

\* lines 105-109: the import of re is reached only inside both ifs
ReImported(d) == "sort_header" \in d.has /\ "sort_div" \in d.has

\* lines 103-124
SortByOptions(d) ==
    IF ReImported(d) THEN [i \in 1..Len(d.links) |-> SortOption(d.links[i])] ELSE <<>>

\* line 183: the positions where \$\('#startdate'\)\.val\('([^']+)'\) matches
StartDateAt(onclick) ==
    {i \in 1..(Len(onclick) - 2) :
        /\ onclick[i] = "$('#startdate').val('" /\ onclick[i + 1] \notin QuoteSymbols
        /\ onclick[i + 2] = "')"}

RECURSIVE ExtraOptions(_)
\* lines 180-188
ExtraOptions(buttons) ==
    IF buttons = <<>> THEN <<>>
    ELSE (IF StartDateAt(Head(buttons).onclick) # {}
          THEN <<[label |-> get_text(Head(buttons).text),
                  start_date |-> Head(buttons).onclick[
                      FirstOf(StartDateAt(Head(buttons).onclick)) + 1]]>>
          ELSE <<>>) \o ExtraOptions(Tail(buttons))

\* the buttons find_all reaches: those of the dropdown, if there is one
ButtonsOf(d) == IF "dropdown" \in d.has THEN d.buttons ELSE <<>>

Slider(id) == [type |-> "slider", id |-> id, default |-> <<"0;100">>]

LicenceOptions ==
    <<[value |-> <<"0">>, text |-> <<"Any">>, selected |-> TRUE],
      [value |-> <<"2">>, text |-> <<"Creative", " ", "Commons">>, selected |-> FALSE]>>

\* lines 162-189
DateRange(d) ==
    Entry("startdate" \in d.has, "start_date",
          [type |-> "date", id |-> "startdate", default |-> <<"2019-01-01">>])
    @@ Entry("enddate" \in d.has, "end_date",
          [type |-> "date", id |-> "enddate", default |-> None])
    @@ ("extra_options" :> ExtraOptions(ButtonsOf(d)))

\* lines 128-190
FiltersControls(d) ==
    IF "collapseZero" \notin d.has THEN EmptyDict
    ELSE Entry("qtitle" \in d.has, "Video Title",
               [type |-> "text", id |-> "qtitle", default |-> <<>>])
         @@ Entry("sliderviews" \in d.has, "Views", Slider("sliderviews"))
         @@ Entry("sliderlikes" \in d.has, "Likes", Slider("sliderlikes"))
         @@ Entry("sliderduration" \in d.has, "Video Duration", Slider("sliderduration"))
         @@ Entry("licenseFilter" \in d.has, "Licence",
                  [type |-> "select", id |-> "licenseFilter", options |-> LicenceOptions])
         @@ ("Date Range" :> DateRange(d))

\* line 183 reads the local name re, which is bound only if line 109 ran
ReUnbound(d) ==
    /\ "collapseZero" \in d.has
    /\ ButtonsOf(d) # <<>>
    /\ ~ReImported(d)

FilterExtractor_extract(d) ==
    IF "accordion" \notin d.has THEN [kind |-> "ok", value |-> EmptyDict]
    ELSE IF ReUnbound(d) THEN [kind |-> "UnboundLocalError", value |-> EmptyDict]
    ELSE [kind |-> "ok",
          value |-> ("Sort By" :> SortByOptions(d)) @@ ("Filters" :> FiltersControls(d))]

InitFilters ==
    /\ \E has \in SUBSET Flags :
       \E k \in 0..MaxItems : \E links \in [1..k -> {L_handler, L_plain}] :
       \E n \in 0..MaxItems : \E buttons \in [1..n -> {Btn_set, Btn_other}] :
          fdoc = FilterPage(has, links, buttons)
    /\ filters_data = NotExtracted
    /\ IdleJson /\ IdleChannel /\ IdleCards /\ IdlePages /\ IdleSetters /\ IdleUrl

ExtractFilters ==
    /\ filters_data.kind = "NotExtracted"
    /\ filters_data' = FilterExtractor_extract(fdoc)
    /\ UNCHANGED <<fdoc, jsonVars, chanVars, cardVars, pageVars, searchVars, setVars, urlVars>>

NextFilters == ExtractFilters

SpecFilters == InitFilters /\ [][NextFilters]_vars

(***************************************************************************)
(* client.py, _search_page and search_all, lines 87-91 and 135-142.        *)
(* The site answers page k with pages[k], and with an empty results page   *)
(* past the last one.  One GenStart/GenYield/GenFetch step is one next()   *)
(* of the consumer: the generator runs to its next yield, to its end or    *)
(* to the exception that ends it.                                          *)
(***************************************************************************)
CardA == Card(<<"vcard", "1">>, Parts)
CardB == Card(<<"vcard", "2">>, Parts \ {"title"})

\* pages of no, one and two cards, a page with no card among its elements,
\* a page with a card that has no scroll-box, and a failed fetch
PageResponses ==
    {[status_code |-> 200, content |-> d] :
        d \in {<<>>, <<CardA>>, <<CardB, CardA>>, <<Bare("div", None)>>,
               <<CardA, Card(<<"vcard", "2">>, Parts \ {"scroll"})>>}}
    \cup {[status_code |-> 500, content |-> <<CardA>>]}

EmptyPage == [status_code |-> 200, content |-> <<>>]

\* the response to the request for page k
PageAt(k) == IF k \in 1..Len(pages) THEN pages[k] ELSE EmptyPage

\* _search_page without the status check of lines 89-90
_search_page_NoStatusCheck(response) == VideoInfoExtractor_extract(response.content)

\* lines 88-91, response being what session.get returned
_search_page(response) ==
    IF response.status_code # 200
    THEN [kind |-> "YoutubeCaptionFinderError", value |-> <<>>]
    ELSE VideoInfoExtractor_extract(response.content)

\* search_all adding 2 at line 142: every other page is asked for
NextPageId_Skip(pc, p) == IF pc = "created" THEN 1 ELSE p + 2

\* search_all with line 142 left out: the same page is asked for again
NextPageId_Stuck(pc, p) == IF pc = "created" THEN 1 ELSE p

\* lines 135 and 142: the page the generator asks for when it resumes
NextPageId(pc, p) == IF pc = "created" THEN 1 ELSE p + 1

\* search_all(...): a generator is made, none of its body runs
SearchAll ==
    /\ gen_calls < MaxCalls
    /\ gen_calls' = gen_calls + 1
    /\ gen_pc' = "created"
    /\ page_id' = 0
    /\ videos' = <<>>
    /\ vpos' = 0
    /\ requests' = <<>>
    /\ yielded' = <<>>
    /\ gen_error' = ""
    /\ UNCHANGED <<pages, jsonVars, chanVars, cardVars, filtVars, searchVars, setVars, urlVars>>

\* lines 140-141: the for loop has a record left to yield
GenYield ==
    /\ gen_pc = "suspended"
    /\ vpos < Len(videos)
    /\ yielded' = Append(yielded, videos[vpos + 1])
    /\ vpos' = vpos + 1
    /\ UNCHANGED <<pages, gen_pc, gen_calls, page_id, videos, requests, gen_error>>
    /\ UNCHANGED <<jsonVars, chanVars, cardVars, filtVars, searchVars, setVars, urlVars>>

\* lines 137-141 once page p was requested and found holds the outcome of
\* _search_page
Fetched(p, found) ==
    /\ page_id' = p
    /\ requests' = Append(requests, p)
    /\ IF found.kind # "ok"
       THEN /\ gen_pc' = "raised"
            /\ gen_error' = found.kind
            /\ UNCHANGED <<videos, vpos, yielded>>
       ELSE IF found.value = <<>>
       THEN /\ gen_pc' = "done"
            /\ videos' = <<>>
            /\ vpos' = 0
            /\ UNCHANGED <<yielded, gen_error>>
       ELSE /\ gen_pc' = "suspended"
            /\ videos' = found.value
            /\ vpos' = 1
            /\ yielded' = Append(yielded, found.value[1])
            /\ UNCHANGED gen_error

\* lines 135-141: the first next() of a generator
GenStart ==
    /\ gen_pc = "created"
    /\ Fetched(NextPageId(gen_pc, page_id),
               _search_page(PageAt(NextPageId(gen_pc, page_id))))
    /\ UNCHANGED <<pages, gen_calls, jsonVars, chanVars, cardVars, filtVars, searchVars, setVars, urlVars>>

\* lines 142, 137-141: the for loop is over, the next page is fetched
GenFetch ==
    /\ gen_pc = "suspended"
    /\ vpos = Len(videos)
    /\ Fetched(NextPageId(gen_pc, page_id),
               _search_page(PageAt(NextPageId(gen_pc, page_id))))
    /\ UNCHANGED <<pages, gen_calls, jsonVars, chanVars, cardVars, filtVars, searchVars, setVars, urlVars>>

\* lines 93-114: search(..., page_id = p): one call of _search_page
Search ==
    /\ \E p \in 1..(MaxPages + 1) :
          /\ search_requests' = <<p>>
          /\ search_result' = _search_page(PageAt(p))
    /\ UNCHANGED <<pageVars, jsonVars, chanVars, cardVars, filtVars, setVars, urlVars>>

InitPages ==
    /\ \E k \in 0..MaxPages : pages \in [1..k -> PageResponses]
    /\ gen_pc = "none"
    /\ gen_calls = 0
    /\ page_id = 0
    /\ videos = <<>>
    /\ vpos = 0
    /\ requests = <<>>
    /\ yielded = <<>>
    /\ gen_error = ""
    /\ search_requests = <<>>
    /\ search_result = NotExtracted
    /\ IdleJson /\ IdleChannel /\ IdleCards /\ IdleFilters /\ IdleSetters /\ IdleUrl

NextPages == SearchAll \/ GenStart \/ GenYield \/ GenFetch \/ Search

SpecPages == InitPages /\ [][NextPages]_vars

(***************************************************************************)
(* filters.py, the range setters of Filters, lines 14-19 and 45-73.  A     *)
(* Python int n is the pair <<q, r>> with n = q * 100000 + r and           *)
(* 0 <= r < 100000, which holds the bounds of the module exactly.          *)
(***************************************************************************)
MIN_VIEWS == <<0, 0>>
MAX_VIEWS == <<60000, 0>>
MIN_LIKES == <<0, 30>>
MAX_LIKES == <<60000, 0>>
MIN_DURATION == <<0, 1>>
MAX_DURATION == <<0, 86400>>

\* a < b on ints
Less(a, b) == a[1] < b[1] \/ (a[1] = b[1] /\ a[2] < b[2])

\* the arguments the setters are called with: values at and around the bounds
ViewsArgs == {<<-1, 99999>>, <<0, 0>>, <<0, 5>>, <<60000, 0>>, <<60000, 1>>}
LikesArgs == {<<0, 29>>, <<0, 30>>, <<0, 31>>, <<60000, 0>>, <<60000, 1>>}
DurationArgs == {<<0, 0>>, <<0, 1>>, <<0, 2>>, <<0, 86400>>, <<0, 86401>>}

\* the three checks without the third one
RangeError_NoOrder(lo, hi, min, max) ==
    IF Less(lo, min) THEN "min" ELSE IF Less(max, hi) THEN "max" ELSE "none"

\* lines 47-52, 57-62, 67-72: the check that raises, in the order of the code
RangeError(lo, hi, min, max) ==
    IF Less(lo, min) THEN "min"
    ELSE IF Less(max, hi) THEN "max"
    ELSE IF Less(hi, lo) THEN "order"
    ELSE "none"

\* the object self after the call and the outcome of the call
Raises(self, check) == [self |-> self, out |-> Raised("ValueError", check)]
Stores(self) == [self |-> self, out |-> Returned(None)]

set_views(self, min_views, max_views) ==
    IF RangeError(min_views, max_views, MIN_VIEWS, MAX_VIEWS) # "none"
    THEN Raises(self, RangeError(min_views, max_views, MIN_VIEWS, MAX_VIEWS))
    ELSE Stores([self EXCEPT !.views = <<min_views, max_views>>])

set_likes(self, min_likes, max_likes) ==
    IF RangeError(min_likes, max_likes, MIN_LIKES, MAX_LIKES) # "none"
    THEN Raises(self, RangeError(min_likes, max_likes, MIN_LIKES, MAX_LIKES))
    ELSE Stores([self EXCEPT !.likes = <<min_likes, max_likes>>])

set_duration(self, start_duration, end_duration) ==
    IF RangeError(start_duration, end_duration, MIN_DURATION, MAX_DURATION) # "none"
    THEN Raises(self, RangeError(start_duration, end_duration, MIN_DURATION, MAX_DURATION))
    ELSE Stores([self EXCEPT !.duration = <<start_duration, end_duration>>])

\* the state after the call op(lo, hi) with the result r
Called(op, lo, hi, r) ==
    /\ flt' = r.self
    /\ flt_call' = [op |-> op, lo |-> lo, hi |-> hi]
    /\ flt_out' = r.out

SetViews ==
    /\ \E lo \in ViewsArgs : \E hi \in ViewsArgs :
          Called("set_views", lo, hi, set_views(flt, lo, hi))
    /\ UNCHANGED <<jsonVars, chanVars, cardVars, filtVars, pageVars, searchVars, urlVars>>

SetLikes ==
    /\ \E lo \in LikesArgs : \E hi \in LikesArgs :
          Called("set_likes", lo, hi, set_likes(flt, lo, hi))
    /\ UNCHANGED <<jsonVars, chanVars, cardVars, filtVars, pageVars, searchVars, urlVars>>

SetDuration ==
    /\ \E lo \in DurationArgs : \E hi \in DurationArgs :
          Called("set_duration", lo, hi, set_duration(flt, lo, hi))
    /\ UNCHANGED <<jsonVars, chanVars, cardVars, filtVars, pageVars, searchVars, urlVars>>

InitSetters ==
    IdleJson /\ IdleChannel /\ IdleCards /\ IdleFilters /\ IdlePages /\ IdleSetters /\ IdleUrl

NextSetters == SetViews \/ SetLikes \/ SetDuration

SpecSetters == InitSetters /\ [][NextSetters]_vars

(***************************************************************************)
(* client.py, _build_search_url, lines 52-64, with Filters.to_dict         *)
(* (filters.py, lines 98-123) and SortOption.to_dict (sorting.py, lines    *)
(* 43-50).  A text is a sequence of symbols: the characters that URL       *)
(* quoting tells apart, the digits, and words of unreserved characters.    *)
(* An optional argument is None or a tagged value.                         *)
(***************************************************************************)
BASE_URL == <<"https://filmot.com", "/", "search", "/">>

\* the characters quote() escapes, with the hex digits of their code
PercentCode ==
    (" " :> <<"2", "0">>) @@ ("#" :> <<"2", "3">>) @@ ("%" :> <<"2", "5">>)
    @@ ("&" :> <<"2", "6">>) @@ ("+" :> <<"2", "B">>) @@ ("/" :> <<"2", "F">>)
    @@ ("=" :> <<"3", "D">>) @@ ("?" :> <<"3", "F">>)

\* quoting that escapes nothing
QuoteChar_Raw(c, safe, plus) == <<c>>

\* urllib.parse.quote of one character; plus is quote_plus, which writes a
\* space as '+'
QuoteChar(c, safe, plus) ==
    IF c \notin DOMAIN PercentCode \/ c \in safe THEN <<c>>
    ELSE IF plus /\ c = " " THEN <<"+">>
    ELSE <<"%">> \o PercentCode[c]

RECURSIVE QuoteText(_, _, _)
QuoteText(t, safe, plus) ==
    IF t = <<>> THEN <<>>
    ELSE QuoteChar(Head(t), safe, plus) \o QuoteText(Tail(t), safe, plus)

\* line 61: urllib.parse.quote(query), '/' being safe
quote(t) == QuoteText(t, {"/"}, FALSE)

\* what urlencode applies to each key and value
quote_plus(t) == QuoteText(t, {}, TRUE)

DigitChars == <<"0", "1", "2", "3", "4", "5", "6", "7", "8", "9">>

RECURSIVE Digits(_)
\* str(n) for 0 <= n
Digits(n) ==
    IF n < 10 THEN <<DigitChars[n + 1]>>
    ELSE Digits(n \div 10) \o <<DigitChars[(n % 10) + 1]>>

RECURSIVE Padded(_, _)
\* n written with w digits, zeros in front
Padded(n, w) ==
    IF w = 0 THEN <<>> ELSE Padded(n \div 10, w - 1) \o <<DigitChars[(n % 10) + 1]>>

\* str(v) of the int held as the pair v
StrInt(v) == IF v[1] = 0 THEN Digits(v[2]) ELSE Digits(v[1]) \o Padded(v[2], 5)

\* date.isoformat() of the date <<year, month, day>>
isoformat(d) == Padded(d[1], 4) \o <<"-">> \o Padded(d[2], 2) \o <<"-">> \o Padded(d[3], 2)

\* bool(v) of a str or None
Truthy(v) == v # None /\ v # <<>>

\* a dict entry when the condition holds: the key, the type of the value, the value
Item(c, k, type, v) == IF c THEN <<<<k, type, v>>>> ELSE <<>>

\* filters.py, lines 117-119: the entry of one end of the date range, None
\* when that end is None, which line 123 filters out
DateItem(k, d) == Item(d # None, k, "str", IF d = None THEN <<>> ELSE isoformat(d))

\* Filters.to_dict: the entries in the order they are inserted
Filters_to_dict(f) ==
    Item(Truthy(f.title), "title", "str", f.title)
    \o (IF f.duration # None
        THEN <<<<"startDuration", "int", f.duration[1]>>, <<"endDuration", "int", f.duration[2]>>>>
        ELSE <<>>)
    \o (IF f.views # None
        THEN <<<<"minViews", "int", f.views[1]>>, <<"maxViews", "int", f.views[2]>>>>
        ELSE <<>>)
    \o (IF f.likes # None
        THEN <<<<"minLikes", "int", f.likes[1]>>, <<"maxLikes", "int", f.likes[2]>>>>
        ELSE <<>>)
    \o (IF f.date_range # None
        THEN DateItem("startDate", f.date_range[1]) \o DateItem("endDate", f.date_range[2])
        ELSE <<>>)
    \o Item(f.license # None, "license", "str", IF f.license = None THEN <<>> ELSE <<f.license[2]>>)

\* SortOption.to_dict
SortOption_to_dict(o) ==
    <<<<"sortField", "str", <<o[2]>>>>, <<"sortOrder", "str", <<o[3]>>>>>>

\* lines 52-58: params, no key being inserted twice
Params(a) ==
    <<<<"gridView", "int", <<0, 1>>>>>>
    \o Item(Truthy(a.channel_id), "channelID", "str", a.channel_id)
    \o (IF a.filters # None THEN Filters_to_dict(a.filters[2]) ELSE <<>>)
    \o (IF a.sort_option # None THEN SortOption_to_dict(a.sort_option) ELSE <<>>)

\* line 60: str(v)
StrOf(item) == IF item[2] = "int" THEN StrInt(item[3]) ELSE item[3]

RECURSIVE urlencode(_)
\* urllib.parse.urlencode of the params left to write
urlencode(params) ==
    IF params = <<>> THEN <<>>
    ELSE quote_plus(<<Head(params)[1]>>) \o <<"=">> \o quote_plus(StrOf(Head(params)))
         \o (IF Tail(params) = <<>> THEN <<>> ELSE <<"&">> \o urlencode(Tail(params)))

\* posixpath.join(a, b) for b that does not start with '/'
posixpath_join(a, b) ==
    IF a = <<>> \/ a[Len(a)] = "/" THEN a \o b ELSE a \o <<"/">> \o b

\* urllib.parse.urljoin(base, ref) for a base that ends in '/' and a ref
\* that is a relative path with no scheme, no leading '/' and no dot segment
urljoin(base, ref) == base \o ref

\* lines 61-64
Assemble(a, query_encoded, encoded) ==
    urljoin(BASE_URL,
            posixpath_join(query_encoded,
                           <<"1", "/">> \o Digits(a.page_id) \o <<"?">> \o encoded))

_build_search_url(a) == Assemble(a, quote(a.query), urlencode(Params(a)))

\* the arguments of the calls
Titles ==
    {None, <<>>, <<"cat">>, <<"a", " ", "b">>, <<"a", "&", "b", "=", "c">>,
     <<"%", "2", "6", "+", "#", "?", "/">>}
ChannelIds == {None, <<>>, <<"UC", "&", "x", "=", "1">>}
Queries == {[query |-> <<"cat">>, page_id |-> 1],
            [query |-> <<"a", " ", "?", "#", "b", "&", "c", "=", "d">>, page_id |-> 12]}
Ranges ==
    {[views |-> None, likes |-> None, duration |-> None],
     [views |-> <<<<0, 0>>, <<0, 0>>>>, likes |-> None, duration |-> <<<<0, 1>>, <<0, 86400>>>>],
     [views |-> None, likes |-> <<<<0, 30>>, <<123, 4567>>>>, duration |-> None],
     [views |-> <<<<0, 5>>, <<60000, 0>>>>, likes |-> <<<<0, 30>>, <<123, 4567>>>>,
      duration |-> <<<<0, 1>>, <<0, 86400>>>>]}
DateRanges == {None, <<None, None>>, <<<<2020, 1, 5>>, None>>,
               <<None, <<2020, 1, 5>>>>, <<<<999, 12, 31>>, <<2020, 1, 5>>>>}
Licenses == {None, <<"LicenseType", "0">>, <<"LicenseType", "2">>, <<"LicenseType", "1">>}
SortOptions == {None, <<"SortOption", "viewcount", "desc">>, <<"SortOption", "uploaddate", "asc">>}

\* Filters(title=..., views=..., ...)
MakeFilters(title, r, dr, lic) ==
    <<"Filters", [NewFilters EXCEPT !.title = title, !.views = r.views, !.likes = r.likes,
                                    !.duration = r.duration, !.date_range = dr,
                                    !.license = lic]>>

Args(q, channel_id, filters, sort_option) ==
    [query |-> q.query, page_id |-> q.page_id, channel_id |-> channel_id,
     filters |-> filters, sort_option |-> sort_option]

InitUrl ==
    /\ \E q \in Queries : \E c \in ChannelIds : \E o \in SortOptions :
          \/ url_args = Args(q, c, None, o)
          \/ \E t \in Titles : \E r \in Ranges : \E dr \in DateRanges : \E lic \in Licenses :
                url_args = Args(q, c, MakeFilters(t, r, dr, lic), o)
    /\ url = <<>>
    /\ IdleJson /\ IdleChannel /\ IdleCards /\ IdleFilters /\ IdlePages /\ IdleSetters

BuildSearchUrl ==
    /\ url = <<>>
    /\ url' = _build_search_url(url_args)
    /\ UNCHANGED <<url_args, jsonVars, chanVars, cardVars, filtVars, pageVars, searchVars, setVars>>

NextUrl == BuildSearchUrl

SpecUrl == InitUrl /\ [][NextUrl]_vars

(***************************************************************************)
(* channel.py, get_channel_id_from_html and get_channel_id, lines 67-111.  *)
(* An outcome is [kind, msg, value]: kind "ok" with the value returned, or *)
(* the exception raised.                                                   *)
(***************************************************************************)
\* the Python value of a parsed JSON value: null is None
PyValue(v) == IF v = <<"null">> THEN None ELSE v

\* the members of the object v whose key is k
MembersAt(v, k) == {i \in 1..Len(v[2]) : v[2][i][1] = <<k>>}

\* v[k] in Python for a parsed value v: KeyError on a dict without the key,
\* TypeError on a str or None; the last member wins among equal keys
Subscript(v, k) ==
    IF v[1] # "obj" THEN Raised("TypeError", "")
    ELSE IF MembersAt(v, k) = {} THEN Raised("KeyError", k)
    ELSE Returned(v[2][CHOOSE i \in MembersAt(v, k) : \A j \in MembersAt(v, k) : j <= i][2])

\* line 85: the key path read from the initial data
ExternalIdPath == <<"metadata", "channelMetadataRenderer", "externalId">>

RECURSIVE Walk(_, _)

\* lines 84-87: the outcome r of one subscript inside the try block: a
\* KeyError becomes the ValueError, any other exception propagates
Caught(r, keys) ==
    IF r.kind = "KeyError"
    THEN Raised("ValueError", "Channel ID not found in initial data.")
    ELSE IF r.kind # "ok" THEN r
    ELSE Walk(r.value, keys)

\* v[k1][k2]... for the keys left to read
Walk(v, keys) ==
    IF keys = <<>> THEN Returned(PyValue(v))
    ELSE Caught(Subscript(v, Head(keys)), Tail(keys))

\* lines 83-87, data being the outcome of extract_yt_initial_data
PathOf(data) ==
    IF data.kind # "ok" THEN Raised(data.kind, data.msg)
    ELSE Walk(data.value, ExternalIdPath)

get_channel_id_from_html(h) == PathOf(extract_yt_initial_data(h))

\* get_channel_id without the status check of line 108
get_channel_id_NoStatusCheck(response) == get_channel_id_from_html(response.text)

get_channel_id(response) ==
    IF response.status_code # 200
    THEN Raised("Exception", "Failed to fetch channel page")
    ELSE get_channel_id_from_html(response.text)

(***************************************************************************)
(* The channel pages a fetch can answer with.                              *)
(***************************************************************************)
AssignTo(body) == <<"ytInitialData", " ", "=", " ", "{">> \o body

ChannelPages ==
    {AssignTo(ChannelBody(v)) :
        v \in {Str("UC1"), Str("UC2"), <<"\"", "\"">>, <<"null">>, <<"{", "}">>}}
    \cup {<<"a", ";">>,                                      \* no assignment
          AssignTo(<<"\"", "metadata", "\"", ":", "{">>),   \* unterminated
          AssignTo(<<"'", "metadata", "'", ":", "null", "}">>), \* not JSON
          AssignTo(<<"}", ";">>),                            \* no metadata key
          AssignTo(Tail(Obj("metadata", Str("x")))),         \* metadata is a string
          AssignTo(Tail(Obj("metadata", <<"{", "}">>)) \o <<";">>),  \* no renderer key
          AssignTo(Tail(Obj("metadata", Obj("channelMetadataRenderer", <<"{", "}">>)))),
          AssignTo(Tail(Obj("metadata", Obj("channelMetadataRenderer", <<"null">>))))}

StatusCodes == {200, 404, 500}

Responses == [status_code : StatusCodes, text : ChannelPages]

(***************************************************************************)
(* channel.py, class Channel, lines 113-143.                               *)
(***************************************************************************)
\* Channel.__init__
ChannelConstruct ==
    /\ ~ch_constructed
    /\ ch_constructed' = TRUE
    /\ ch_channel_id' = None
    /\ UNCHANGED <<ch_fetches, ch_reads, ch_returned, ch_resp, ch_last>>
    /\ UNCHANGED <<jsonVars, cardVars, filtVars, pageVars, searchVars, setVars, urlVars>>

\* lines 138-140 on a handle whose _channel_id is None, got being the outcome
\* of get_channel_id: what the getter stores, whether it fetched, its outcome
Resolved(cid, got) ==
    IF got.kind = "ok"
    THEN [stored |-> got.value, fetched |-> TRUE, outcome |-> Returned(got.value)]
    ELSE [stored |-> cid, fetched |-> TRUE, outcome |-> got]

\* the getter of Channel.channel_id on a handle whose _channel_id is cid, when
\* a fetch would be answered by response
channel_id(cid, response) ==
    IF cid = None
    THEN Resolved(cid, get_channel_id(response))
    ELSE [stored |-> cid, fetched |-> FALSE, outcome |-> Returned(cid)]

\* the state after a read r of channel_id
ReadDone(response, r) ==
    /\ ch_channel_id' = r.stored
    /\ ch_fetches' = ch_fetches + (IF r.fetched THEN 1 ELSE 0)
    /\ ch_resp' = IF r.fetched THEN response ELSE NoResponse
    /\ ch_last' = r.outcome
    /\ ch_returned' = (ch_returned \/ r.outcome.kind = "ok")

ChannelIdRead ==
    /\ ch_constructed
    /\ ch_reads < MaxReads
    /\ \E response \in Responses :
          ReadDone(response, channel_id(ch_channel_id, response))
    /\ ch_reads' = ch_reads + 1
    /\ UNCHANGED <<ch_constructed, jsonVars, cardVars, filtVars, pageVars, searchVars, setVars, urlVars>>

InitChannel ==
    IdleJson /\ IdleChannel /\ IdleCards /\ IdleFilters /\ IdlePages /\ IdleSetters /\ IdleUrl

NextChannel == ChannelConstruct \/ ChannelIdRead

SpecChannel == InitChannel /\ [][NextChannel]_vars

(***************************************************************************)
(* The extraction of one document.                                         *)
(***************************************************************************)
InitJson ==
    /\ IsDocument(html)
    /\ extracted = NotRun
    /\ IdleChannel /\ IdleCards /\ IdleFilters /\ IdlePages /\ IdleSetters /\ IdleUrl

ExtractYtInitialData ==
    /\ extracted.kind = "NotRun"
    /\ extracted' = extract_yt_initial_data(html)
    /\ UNCHANGED <<html, chanVars, cardVars, filtVars, pageVars, searchVars, setVars, urlVars>>

NextJson == ExtractYtInitialData

SpecJson == InitJson /\ [][NextJson]_vars

(***************************************************************************)
(* What the claims about the extraction speak of, stated apart from the    *)
(* scan: the object literal that opens at a brace, by its grammar          *)
(*   object ::= '{' (object | string | other)* '}'                         *)
(*   string ::= q (escaped-pair | not-q)* q      for q one of the quotes   *)
(* and the assignment forms, by enumeration.                               *)
(***************************************************************************)
RECURSIVE RefStringEnd(_, _, _)
\* the position after the string delimited by q whose content starts at j; 0 if unterminated
RefStringEnd(h, j, q) ==
    IF j > Len(h) THEN 0
    ELSE IF h[j] = "\\" THEN (IF j + 1 > Len(h) THEN 0 ELSE RefStringEnd(h, j + 2, q))
    ELSE IF h[j] = q THEN j + 1
    ELSE RefStringEnd(h, j + 1, q)

RECURSIVE RefItemsEnd(_, _)
\* the position after the brace that closes the object whose items start at j; 0 if none
RefItemsEnd(h, j) ==
    IF j > Len(h) THEN 0
    ELSE IF h[j] = "}" THEN j + 1
    ELSE IF h[j] = "{"
         THEN LET e == RefItemsEnd(h, j + 1) IN IF e = 0 THEN 0 ELSE RefItemsEnd(h, e)
    ELSE IF h[j] \in Quotes
         THEN LET e == RefStringEnd(h, j + 1, h[j]) IN IF e = 0 THEN 0 ELSE RefItemsEnd(h, e)
    ELSE RefItemsEnd(h, j + 1)

\* the position after the brace matching the one at i; 0 when the object is unterminated
MatchingEnd(h, i) == IF At(h, i) = "{" THEN RefItemsEnd(h, i + 1) ELSE 0

WsRuns == {[i \in 1..k |-> " "] : k \in 0..(2 * MaxWs + 1)}

AssignForms ==
    {n \o w1 \o <<"=">> \o w2 \o <<"{">> :
        <<n, w1, w2>> \in
            ({<<"ytInitialData">>} \cup
             {<<"window", "[">> \o v1 \o <<q1, "ytInitialData", q2>> \o v2 \o <<"]">> :
                 <<q1, q2, v1, v2>> \in Quotes \X Quotes \X WsRuns \X WsRuns})
            \X WsRuns \X WsRuns}

ContainsAssign(h) ==
    \E i \in 1..Len(h) : \E j \in i..Len(h) : SubSeq(h, i, j) \in AssignForms

Ran == extracted.kind # "NotRun"

\* C3: when the object that opens at the matched brace is well formed, the
\* captured span runs from that brace to its matching closing brace, whatever
\* braces, semicolons, quotes of the other kind and escaped characters its
\* strings hold.
C3_CapturesMatchingSpan ==
    (Ran /\ extracted.start_index # 0 /\ MatchingEnd(html, extracted.start_index) # 0)
        => /\ extracted.end_index = MatchingEnd(html, extracted.start_index)
           /\ extracted.json_text =
                  SubSeq(html, extracted.start_index,
                         MatchingEnd(html, extracted.start_index) - 1)

C3_Witness ==
    /\ Ran /\ extracted.start_index # 0
    /\ MatchingEnd(html, extracted.start_index) # 0
    /\ extracted.end_index <= Len(html)
    /\ \E i \in 1..(Len(extracted.json_text) - 3) :
          /\ extracted.json_text[i] = "\""
          /\ extracted.json_text[i + 1] = "}"
          /\ extracted.json_text[i + 2] = "\\"
          /\ extracted.json_text[i + 3] = "\""

\* C4: when the matched brace is never closed, the call ends in the JSON
\* decode error and returns no value.
C4_UnterminatedIsError ==
    (Ran /\ extracted.start_index # 0 /\ MatchingEnd(html, extracted.start_index) = 0)
        => (extracted.kind = "JSONDecodeError" /\ extracted.value = None)

C4_Witness ==
    /\ Ran /\ extracted.start_index # 0
    /\ MatchingEnd(html, extracted.start_index) = 0
    /\ extracted.kind = "JSONDecodeError"
    /\ \E i \in (extracted.start_index + 1)..Len(html) : html[i] = "}"

\* C5: a document that holds neither assignment form ends in the not-found
\* ValueError, before any scan or JSON parse, and returns no value.
C5_NotFoundError ==
    (Ran /\ ~ContainsAssign(html))
        => /\ extracted.kind = "ValueError"
           /\ extracted.msg = "ytInitialData not found in HTML"
           /\ ~extracted.scanned
           /\ extracted.value = None

C5_Witness ==
    /\ Ran /\ ~ContainsAssign(html)
    /\ extracted.kind = "ValueError"
    /\ \E i \in 1..Len(html) : html[i] = "ytInitialData"
    /\ \E i \in 1..Len(html) : html[i] = "{"

\* a step that is a read of channel_id
IsRead == ch_reads' = ch_reads + 1

\* C7: constructing the handle fetches nothing, the first read makes one
\* fetch, and once a read has returned a value every later read returns
\* that value and fetches nothing.
C7_ComputeOnce ==
    [][/\ (~ch_constructed /\ ch_constructed') => ch_fetches' = ch_fetches
       /\ (IsRead /\ ch_reads = 0) => ch_fetches' = ch_fetches + 1
       /\ (IsRead /\ ch_returned) => (ch_fetches' = ch_fetches /\ ch_last' = ch_last)]_vars

\* the structural failures of a resolution, by the response fetched
FetchFailed(r) == r.status_code # 200
AssignMissing(r) == r.status_code = 200 /\ ~ContainsAssign(r.text)
SpanNotJson(r) ==
    /\ r.status_code = 200
    /\ ContainsAssign(r.text)
    /\ json_loads(extract_yt_initial_data(r.text).json_text) = Fail

\* C8: a read whose resolution fails structurally (fetch status, assignment
\* not found, span not JSON) raises that error after exactly one fetch and
\* leaves the handle unresolved, as it was before the read.
C8_FailedReadLeavesUnresolved ==
    [][(IsRead /\ ch_resp' # NoResponse) =>
          /\ FetchFailed(ch_resp') => ch_last'.kind = "Exception"
          /\ AssignMissing(ch_resp') =>
                 (ch_last'.kind = "ValueError"
                  /\ ch_last'.msg = "ytInitialData not found in HTML")
          /\ SpanNotJson(ch_resp') => ch_last'.kind = "JSONDecodeError"
          /\ (FetchFailed(ch_resp') \/ AssignMissing(ch_resp') \/ SpanNotJson(ch_resp')) =>
                 /\ ch_fetches' = ch_fetches + 1
                 /\ ch_channel_id = None
                 /\ ch_channel_id' = None
                 /\ ch_returned' = ch_returned]_vars

C8_Witness ==
    /\ ch_reads = 3
    /\ ch_fetches = 3
    /\ ch_channel_id = None
    /\ SpanNotJson(ch_resp)
    /\ ch_last.kind = "JSONDecodeError"
    /\ ~ch_returned

\* the result cards of the page, in document order: the div elements whose id
\* begins with "vcard"
HasVcardId(e) == e.tag = "div" /\ e.id # None /\ e.id[1] = "vcard"
CardsOf(d) == SelectSeq(d, HasVcardId)

VideosExtracted == video_list.kind # "NotExtracted"

\* C1: extract returns one record per result card of the page, in document
\* order, whichever sub-elements the cards have.
C1_OneRecordPerCard ==
    VideosExtracted =>
        /\ video_list.kind = "ok"
        /\ Len(video_list.value) = Len(CardsOf(doc))
        /\ \A i \in 1..Len(CardsOf(doc)) : video_list.value[i].vcard_id = CardsOf(doc)[i].id

\* a card with none of the optional sub-elements
IsBare(e) ==
    /\ e.anchors = <<>> /\ e.badges = <<>>
    /\ e.thumb = None /\ e.title = None /\ e.scroll = None

Unknown(id, idx) ==
    [vcard_id |-> id, idx |-> idx, video_id |-> None, thumbnail_url |-> None,
     video_link |-> None, title |-> None, channel |-> None, views |-> None,
     likes |-> None, upload_date |-> None, language |-> None, scroll_text |-> None]

\* C2: no missing sub-element aborts the parse, and a card that lacks every
\* optional sub-element still yields its record, every sub-field None.
C2_MissingPartsTolerated ==
    VideosExtracted =>
        /\ video_list.kind = "ok"
        /\ \A i \in 1..Len(CardsOf(doc)) :
              IsBare(CardsOf(doc)[i]) =>
                  video_list.value[i] = Unknown(CardsOf(doc)[i].id, CardsOf(doc)[i].idx)

FiltersExtracted == filters_data.kind # "NotExtracted"

\* the sub-structures of the filter panel that a page has
HasPart(d, part) ==
    IF part = "sort" THEN "sort_header" \in d.has /\ "sort_div" \in d.has
    ELSE IF part = "buttons" THEN "collapseZero" \in d.has /\ "dropdown" \in d.has
    ELSE "collapseZero" \in d.has /\ part \in d.has

\* what a result v says of a sub-structure
EntryOf(v, part) ==
    IF part = "sort" THEN v["Sort By"]
    ELSE IF part = "qtitle" THEN v["Filters"]["Video Title"]
    ELSE IF part = "sliderviews" THEN v["Filters"]["Views"]
    ELSE IF part = "sliderlikes" THEN v["Filters"]["Likes"]
    ELSE IF part = "sliderduration" THEN v["Filters"]["Video Duration"]
    ELSE IF part = "licenseFilter" THEN v["Filters"]["Licence"]
    ELSE IF part = "startdate" THEN v["Filters"]["Date Range"]["start_date"]
    ELSE IF part = "enddate" THEN v["Filters"]["Date Range"]["end_date"]
    ELSE v["Filters"]["Date Range"]["extra_options"]

FilterParts == {"sort", "qtitle", "sliderviews", "sliderlikes", "sliderduration",
                "licenseFilter", "startdate", "enddate", "buttons"}

\* the page with every element present, its links and buttons kept
Complete(d) == [d EXCEPT !.has = Flags]

\* C9: on a page with the accordion, whichever sub-structures are absent the
\* call raises nothing, and what it returns for each sub-structure that is
\* present is what it returns for it when all are present.
C9_SubExtractionsIndependent ==
    (FiltersExtracted /\ "accordion" \in fdoc.has) =>
        /\ filters_data.kind = "ok"
        /\ \A part \in FilterParts :
              HasPart(fdoc, part) =>
                  EntryOf(filters_data.value, part)
                      = EntryOf(FilterExtractor_extract(Complete(fdoc)).value, part)

\* C10: without the accordion the result is empty and nothing is raised; with
\* it the result always has the "Sort By" and the "Filters" entries.
C10_EmptyOrBothEntries ==
    FiltersExtracted =>
        /\ filters_data.kind = "ok"
        /\ "accordion" \notin fdoc.has => DOMAIN filters_data.value = {}
        /\ "accordion" \in fdoc.has => DOMAIN filters_data.value = {"Sort By", "Filters"}

\* page k is fetched with success and parsed
ParsesOk(k) ==
    /\ PageAt(k).status_code = 200
    /\ VideoInfoExtractor_extract(PageAt(k).content).kind = "ok"

RecordsOf(k) == VideoInfoExtractor_extract(PageAt(k).content).value

\* page n is the first page that parses to zero records
FirstEmpty(n) ==
    /\ \A k \in 1..(n - 1) : ParsesOk(k) /\ RecordsOf(k) # <<>>
    /\ ParsesOk(n) /\ RecordsOf(n) = <<>>

RECURSIVE RecordsUpTo(_)
\* the records of pages 1..n, in page order
RecordsUpTo(n) == IF n = 0 THEN <<>> ELSE RecordsUpTo(n - 1) \o RecordsOf(n)

IsPrefix(a, b) == Len(a) <= Len(b) /\ a = SubSeq(b, 1, Len(a))

UpTo(n) == [i \in 1..n |-> i]

\* C6: when page n is the first empty page, the iterator yields the records
\* of pages 1..n-1 in order and no others, requests pages 1..n and no other,
\* raises nothing, and has yielded exactly those records when it finishes.
C6_StopsAtFirstEmptyPage ==
    \A n \in 1..(MaxPages + 1) :
        (gen_pc # "none" /\ FirstEmpty(n)) =>
            /\ gen_pc # "raised"
            /\ IsPrefix(yielded, RecordsUpTo(n - 1))
            /\ IsPrefix(requests, UpTo(n))
            /\ gen_pc = "done" => (yielded = RecordsUpTo(n - 1) /\ requests = UpTo(n))

C6_Witness ==
    /\ gen_pc = "done"
    /\ FirstEmpty(3)
    /\ requests = <<1, 2, 3>>
    /\ Len(yielded) = 4

RECURSIVE SegmentAbsent(_, _)
\* some segment of the key path keys is absent from the parsed value v: v is
\* not an object, or has no member of the first key, or the rest of the path
\* is absent from the value of that member
SegmentAbsent(v, keys) ==
    /\ keys # <<>>
    /\ \/ v[1] # "obj"
       \/ \A i \in 1..Len(v[2]) : v[2][i][1] # <<Head(keys)>>
       \/ SegmentAbsent(
              v[2][CHOOSE i \in 1..Len(v[2]) :
                      /\ v[2][i][1] = <<Head(keys)>>
                      /\ \A j \in (i + 1)..Len(v[2]) : v[2][j][1] # <<Head(keys)>>][2],
              Tail(keys))

\* the last read fetched a page whose initial data was extracted
DataRead == ch_resp.status_code = 200 /\ extract_yt_initial_data(ch_resp.text).kind = "ok"

\* C11: when a segment of metadata -> channelMetadataRenderer -> externalId is
\* absent from the extracted object (a key missing, or an intermediate value
\* that is not an object), the lookup fails with the ValueError "Channel ID
\* not found in initial data." and with no other exception.
C11_AbsentSegmentIsNotFound ==
    (DataRead /\ SegmentAbsent(extract_yt_initial_data(ch_resp.text).value, ExternalIdPath))
        => (ch_last.kind = "ValueError"
            /\ ch_last.msg = "Channel ID not found in initial data.")

\* page k is the first page whose fetch fails: the pages before it are fetched
\* with success and parse to at least one record
FirstFailed(k) ==
    /\ \A j \in 1..(k - 1) : ParsesOk(j) /\ RecordsOf(j) # <<>>
    /\ PageAt(k).status_code # 200

Searched == search_requests # <<>>

\* C12: a fetch with a status other than 200 raises the fetch error at that
\* step after one request for the page.  In search_all, with k the failing
\* page, pages 1..k are requested once each and no other, and when page k has
\* been requested the generator has raised and the records of pages 1..k-1
\* have all been yielded.
C12_FetchErrorPropagates ==
    /\ (Searched /\ PageAt(search_requests[1]).status_code # 200) =>
           (search_result.kind = "YoutubeCaptionFinderError" /\ Len(search_requests) = 1)
    /\ \A k \in 1..MaxPages :
           (gen_pc # "none" /\ FirstFailed(k)) =>
               /\ IsPrefix(requests, UpTo(k))
               /\ gen_pc \in {"created", "suspended", "raised"}
               /\ IsPrefix(yielded, RecordsUpTo(k - 1))
               /\ (gen_pc = "raised" \/ Len(requests) = k) =>
                      /\ gen_pc = "raised"
                      /\ gen_error = "YoutubeCaptionFinderError"
                      /\ requests = UpTo(k)
                      /\ yielded = RecordsUpTo(k - 1)

C12_Witness ==
    /\ gen_pc = "raised"
    /\ FirstFailed(2)
    /\ requests = <<1, 2>>
    /\ Len(yielded) = 2
    /\ Searched
    /\ search_result.kind = "YoutubeCaptionFinderError"

\* a step that issues a page request of the current generator
Requests == gen_calls' = gen_calls /\ requests' # requests

\* C15: the pages are requested in increasing order from page 1, each once;
\* nothing is requested before the first next() of the consumer; page k+1 is
\* requested only when every record of page k has been yielded, one record
\* being yielded per next(); and a new call of search_all starts at page 1.
C15_LazySequential ==
    /\ [](/\ requests = UpTo(Len(requests))
          /\ gen_pc \in {"none", "created"} => (requests = <<>> /\ yielded = <<>>)
          /\ Len(requests) >= 1 => IsPrefix(RecordsUpTo(Len(requests) - 1), yielded))
    /\ [][/\ gen_calls' # gen_calls =>
                (gen_pc' = "created" /\ requests' = <<>> /\ yielded' = <<>>)
          /\ (gen_pc = "created" /\ Requests) => requests' = <<1>>
          /\ Requests =>
                /\ requests' = Append(requests, Len(requests) + 1)
                /\ yielded = RecordsUpTo(Len(requests))
          /\ Len(yielded') <= Len(yielded) + 1]_vars

C15_Witness ==
    /\ gen_calls = 2
    /\ requests = <<1, 2>>
    /\ Len(yielded) = 4
    /\ gen_pc = "suspended"

\* a <= b for ints held as pairs
AtMost(a, b) == a[1] < b[1] \/ (a[1] = b[1] /\ a[2] <= b[2])

\* a stored range is unset or a pair within the bounds
RangeOk(v, min, max) ==
    v = None \/ (AtMost(min, v[1]) /\ AtMost(v[1], v[2]) /\ AtMost(v[2], max))

\* the arguments of the call c break a bound or are out of order
BadArgs(c, min, max) == ~(AtMost(min, c.lo) /\ AtMost(c.lo, c.hi) /\ AtMost(c.hi, max))

BadCall(c) ==
    IF c.op = "set_views" THEN BadArgs(c, <<0, 0>>, <<60000, 0>>)
    ELSE IF c.op = "set_likes" THEN BadArgs(c, <<0, 30>>, <<60000, 0>>)
    ELSE BadArgs(c, <<0, 1>>, <<0, 86400>>)

\* the object f after the call c has stored its range
Stored(f, c) ==
    IF c.op = "set_views" THEN [f EXCEPT !.views = <<c.lo, c.hi>>]
    ELSE IF c.op = "set_likes" THEN [f EXCEPT !.likes = <<c.lo, c.hi>>]
    ELSE [f EXCEPT !.duration = <<c.lo, c.hi>>]

\* C16: every stored range is unset or a pair lo <= hi within the bounds of
\* its field; a call whose arguments break a bound or have lo > hi raises
\* ValueError and changes no field; a successful call changes its own field
\* only.
C16_RangesWithinBounds ==
    /\ [](/\ RangeOk(flt.views, <<0, 0>>, <<60000, 0>>)
          /\ RangeOk(flt.likes, <<0, 30>>, <<60000, 0>>)
          /\ RangeOk(flt.duration, <<0, 1>>, <<0, 86400>>))
    /\ [][flt_call'.op # "none" =>
             IF BadCall(flt_call')
             THEN flt_out'.kind = "ValueError" /\ flt' = flt
             ELSE flt_out'.kind = "ok" /\ flt' = Stored(flt, flt_call')]_vars

C16_Witness ==
    /\ flt.views = <<<<0, 0>>, <<60000, 0>>>>
    /\ flt.likes = <<<<0, 30>>, <<0, 30>>>>
    /\ flt.duration = <<<<0, 1>>, <<0, 86400>>>>
    /\ flt_call = [op |-> "set_likes", lo |-> <<0, 31>>, hi |-> <<0, 30>>]
    /\ flt_out.kind = "ValueError"

IconLess(b) == b.icon \notin {"fa-eye", "fa-thumbs-up"}
Lettered(b) == \E i \in 1..Len(b.text) : b.text[i] \in AlphaWords
DateLike(b) == IconLess(b) /\ Lettered(b)
HasEye(b) == b.icon = "fa-eye"
HasThumbsUp(b) == b.icon = "fa-thumbs-up"

\* the stripped text of the first badge of bs, None if bs is empty
FirstText(bs) == IF bs = <<>> THEN None ELSE get_text(Head(bs).text)

\* C14: in every record, views is the text of the eye badge, likes the text of
\* the thumbs-up badge, and upload_date the text of the first badge in
\* document order that has neither icon and holds a letter.
C14_FirstDateBadgeWins ==
    (VideosExtracted /\ video_list.kind = "ok") =>
        \A i \in 1..Len(CardsOf(doc)) :
            /\ video_list.value[i].views = FirstText(SelectSeq(CardsOf(doc)[i].badges, HasEye))
            /\ video_list.value[i].likes
                   = FirstText(SelectSeq(CardsOf(doc)[i].badges, HasThumbsUp))
            /\ video_list.value[i].upload_date
                   = FirstText(SelectSeq(CardsOf(doc)[i].badges, DateLike))

(***************************************************************************)
(* Reading back the query string of a URL, as urlsplit and parse_qsl do:   *)
(* the text between the first '?' and a '#', cut at '&', each piece cut at *)
(* its first '=', '+' read as a space and %XX as the character of that     *)
(* code, pieces without a value left out.                                  *)
(***************************************************************************)
Positions(t, c) == {i \in 1..Len(t) : t[i] = c}

\* the position of the first c of t, 0 if it has none
IndexIn(S) == IF S = {} THEN 0 ELSE CHOOSE i \in S : \A j \in S : i <= j
IndexOf(t, c) == IndexIn(Positions(t, c))

CutBefore(t, i) == IF i = 0 THEN t ELSE SubSeq(t, 1, i - 1)
CutAfter(t, i) == IF i = 0 THEN <<>> ELSE SubSeq(t, i + 1, Len(t))

\* the text before the first c of t, all of t if it has none
Before(t, c) == CutBefore(t, IndexOf(t, c))

\* the text after the first c of t, empty if it has none
After(t, c) == CutAfter(t, IndexOf(t, c))

QueryString(u) == Before(After(u, "?"), "#")

\* the character with the hex code <<h1, h2>>, "" if the model has none
CharOfCode(h1, h2) ==
    IF \E c \in DOMAIN PercentCode : PercentCode[c] = <<h1, h2>>
    THEN CHOOSE c \in DOMAIN PercentCode : PercentCode[c] = <<h1, h2>>
    ELSE ""

RECURSIVE Unquote(_)
Unquote(t) ==
    IF t = <<>> THEN <<>>
    ELSE IF Head(t) = "+" THEN <<" ">> \o Unquote(Tail(t))
    ELSE IF Head(t) = "%" /\ Len(t) >= 3 /\ CharOfCode(t[2], t[3]) # ""
         THEN <<CharOfCode(t[2], t[3])>> \o Unquote(SubSeq(t, 4, Len(t)))
    ELSE <<Head(t)>> \o Unquote(Tail(t))

\* the pair of one piece name=value, nothing when the value is blank
PairOf(name, value) ==
    IF value = <<>> THEN <<>> ELSE <<<<Unquote(name), Unquote(value)>>>>

PieceOf(piece) == PairOf(Before(piece, "="), After(piece, "="))

RECURSIVE ParseQsl(_)
\* the <<name, value>> pairs of a query string, in order
ParseQsl(t) ==
    IF t = <<>> THEN <<>> ELSE PieceOf(Before(t, "&")) \o ParseQsl(After(t, "&"))

DigitValue(c) == (CHOOSE i \in 1..10 : DigitChars[i] = c) - 1

RECURSIVE NatOf(_)
\* the number written by the digits t
NatOf(t) == IF t = <<>> THEN 0 ELSE NatOf(SubSeq(t, 1, Len(t) - 1)) * 10 + DigitValue(t[Len(t)])

\* int(t) as a pair
IntOf(t) ==
    IF Len(t) <= 5 THEN <<0, NatOf(t)>>
    ELSE <<NatOf(SubSeq(t, 1, Len(t) - 5)), NatOf(SubSeq(t, Len(t) - 4, Len(t)))>>

\* date.fromisoformat(t)
DateOf(t) == <<NatOf(SubSeq(t, 1, 4)), NatOf(SubSeq(t, 6, 7)), NatOf(SubSeq(t, 9, 10))>>

IntNames == {"gridView", "startDuration", "endDuration", "minViews", "maxViews",
             "minLikes", "maxLikes"}
DateNames == {"startDate", "endDate"}
EnumNames == {"license", "sortField", "sortOrder"}

\* a recovered pair with its value read as the type of its parameter
Typed(pair) ==
    IF pair[1] = <<>> \/ Len(pair[1]) > 1 THEN <<"?", pair[2]>>
    ELSE IF pair[1][1] \in IntNames THEN <<pair[1][1], IntOf(pair[2])>>
    ELSE IF pair[1][1] \in DateNames THEN <<pair[1][1], DateOf(pair[2])>>
    ELSE IF pair[1][1] \in EnumNames THEN <<pair[1][1], pair[2][1]>>
    ELSE <<pair[1][1], pair[2]>>

TypedSet(pairs) == {Typed(pairs[i]) : i \in 1..Len(pairs)}

Recovered(u) == TypedSet(ParseQsl(QueryString(u)))

Given(c, k, v) == IF c THEN {<<k, v>>} ELSE {}

\* the range parameters, the dates, the licence and the sort supplied
SuppliedRest(a) ==
    (IF a.filters = None THEN {}
     ELSE Given(a.filters[2].duration # None, "startDuration", a.filters[2].duration[1])
          \cup Given(a.filters[2].duration # None, "endDuration", a.filters[2].duration[2])
          \cup Given(a.filters[2].views # None, "minViews", a.filters[2].views[1])
          \cup Given(a.filters[2].views # None, "maxViews", a.filters[2].views[2])
          \cup Given(a.filters[2].likes # None, "minLikes", a.filters[2].likes[1])
          \cup Given(a.filters[2].likes # None, "maxLikes", a.filters[2].likes[2])
          \cup Given(a.filters[2].date_range # None /\ a.filters[2].date_range[1] # None,
                     "startDate", a.filters[2].date_range[1])
          \cup Given(a.filters[2].date_range # None /\ a.filters[2].date_range[2] # None,
                     "endDate", a.filters[2].date_range[2])
          \cup Given(a.filters[2].license # None, "license", a.filters[2].license[2]))
    \cup (IF a.sort_option = None THEN {}
          ELSE {<<"sortField", a.sort_option[2]>>, <<"sortOrder", a.sort_option[3]>>})
    \cup {<<"gridView", <<0, 1>>>>}

TitleOf(a) == IF a.filters = None THEN None ELSE a.filters[2].title

\* every parameter supplied: a title or channel id is supplied when it is not None
Supplied(a) ==
    SuppliedRest(a)
    \cup Given(TitleOf(a) # None, "title", TitleOf(a))
    \cup Given(a.channel_id # None, "channelID", a.channel_id)

\* the same, a title or channel id that is the empty string counting as not supplied
SuppliedNonEmpty(a) ==
    SuppliedRest(a)
    \cup Given(TitleOf(a) # None /\ TitleOf(a) # <<>>, "title", TitleOf(a))
    \cup Given(a.channel_id # None /\ a.channel_id # <<>>, "channelID", a.channel_id)

Built == url # <<>>

\* each recovered name occurs once
NoRepeat(u) == Cardinality(Recovered(u)) = Len(ParseQsl(QueryString(u)))

\* C13 as stated: the query string of the built URL reads back as gridView=1
\* and exactly the parameters supplied, an empty title or channel id included.
C13_RoundTripAllSupplied ==
    Built => (Recovered(url) = Supplied(url_args) /\ NoRepeat(url))

\* C13, amended: the query string of the built URL reads back as gridView=1
\* and exactly the parameters supplied, where a title or a channel id that is
\* the empty string counts as not supplied.
C13_RoundTrip ==
    Built => (Recovered(url) = SuppliedNonEmpty(url_args) /\ NoRepeat(url))

C13_Witness ==
    /\ Built
    /\ url_args.filters # None
    /\ TitleOf(url_args) = <<"%", "2", "6", "+", "#", "?", "/">>
    /\ url_args.channel_id = <<"UC", "&", "x", "=", "1">>
    /\ url_args.filters[2].views = <<<<0, 5>>, <<60000, 0>>>>
    /\ url_args.filters[2].likes = <<<<0, 30>>, <<123, 4567>>>>
    /\ url_args.filters[2].date_range = <<<<999, 12, 31>>, <<2020, 1, 5>>>>
    /\ url_args.filters[2].license # None
    /\ url_args.sort_option # None
    /\ Cardinality(Recovered(url)) = 14

====
